---- MODULE Spec2Model ----
(***************************************************************************)
(* Model of objdump_to_bindump.cpp: main's argument handling, usage(),     *)
(* and process_objdump_file's per-line conversion of hex text to binary.   *)
(* A string is a sequence of one-character strings; indices are 0-based as *)
(* in the source and converted at the point of access.                     *)
(***************************************************************************)
EXTENDS Integers, Sequences, FiniteSets, TLC

VARIABLES pc, argv, full_output, filename, exists, input, nread, line, kind,
          hex_part, bin_part, out, err, exit_code, usage_msg, oob

vars == <<pc, argv, full_output, filename, exists, input, nread, line, kind,
          hex_part, bin_part, out, err, exit_code, usage_msg, oob>>

----------------------------------------------------------------------------
(* Bounds of the model *)

\* longest enumerated input line (the sample lines below are longer)
MaxLen == 5
\* most lines in a file of the whole-program specification
MaxLines == 2
\* most command-line arguments after the program name
MaxArgs == 2

----------------------------------------------------------------------------
(* Program constants *)

\* for(int token = 0; token < 7; token++)
NumTokens == 7
\* for(int tlen = 0; tlen < 2; ...)
TokenLen == 2
\* for(int i = 0; i < 4; i++)
NibbleBits == 4
\* size_t arithmetic is modular; the width is scaled to what TLC's integers hold
SizeMod == 2^30
\* std::string::npos == (size_t)(-1)
npos == SizeMod - 1

TAB == "\t"
NL == "\n"
COLON == ":"

----------------------------------------------------------------------------
(* Characters *)

HexChars == {"0","1","2","3","4","5","6","7","8","9",
             "a","b","c","d","e","f","A","B","C","D","E","F"}

\* isspace() in the "C" locale
IsSpace(c) == c \in {" ", "\t", "\n", "\r", "\f"}

\* what  ss << std::hex << c; ss >> value  stores for a hexadecimal digit
HexValue(c) ==
    CASE c = "0" -> 0  [] c = "1" -> 1  [] c = "2" -> 2  [] c = "3" -> 3
      [] c = "4" -> 4  [] c = "5" -> 5  [] c = "6" -> 6  [] c = "7" -> 7
      [] c = "8" -> 8  [] c = "9" -> 9
      [] c \in {"a", "A"} -> 10  [] c \in {"b", "B"} -> 11
      [] c \in {"c", "C"} -> 12  [] c \in {"d", "D"} -> 13
      [] c \in {"e", "E"} -> 14  [] c \in {"f", "F"} -> 15

\* Values the uninitialized  int value  may hold when the extraction fails
\* and leaves it untouched (0 is what a library that zeroes on failure stores).
Garbage == {0, 6, -3}

----------------------------------------------------------------------------
(* std::string operations *)

Min(a, b) == IF a < b THEN a ELSE b

\* a - b and a + b in size_t
SizeSub(a, b) == (a - b) % SizeMod
SizeAdd(a, b) == (a + b) % SizeMod

\* s.find(c, from)
Find(s, c, from) ==
    LET hits == {i \in 0..(Len(s) - 1) : i >= from /\ s[i + 1] = c}
    IN  IF hits = {} THEN npos
        ELSE CHOOSE i \in hits : \A j \in hits : i <= j

\* s.substr(start, n), defined for start <= s.size()
Substr(s, start, n) ==
    LET m == Min(n, Len(s) - start)
    IN  SubSeq(s, start + 1, start + m)

\* whether s[i] reads a character of s
IndexInBounds(s, i) == 0 <= i /\ i < Len(s)

\* whether s.substr(start, ...) starts inside s
StartInBounds(s, start) == 0 <= start /\ start <= Len(s)

----------------------------------------------------------------------------
(* The conversion of one character (lines 126-140) *)

\* value % 2 and value / 2 on int: C++ truncates toward zero
CRem2(v) == IF v >= 0 THEN v % 2 ELSE -((-v) % 2)
CDiv2(v) == IF v >= 0 THEN v \div 2 ELSE -((-v) \div 2)

\* os << n  for the remainders -1, 0, 1
IntStr(n) == CASE n = 0 -> <<"0">> [] n = 1 -> <<"1">> [] n = -1 -> <<"-", "1">>

\* the loop  for(i < 4) { os << value % 2; value /= 2; }  : contents of os
RECURSIVE BitStream(_, _)
BitStream(value, i) ==
    IF i = NibbleBits THEN <<>>
    ELSE IntStr(CRem2(value)) \o BitStream(CDiv2(value), i + 1)

Reverse(s) == [i \in 1..Len(s) |-> s[Len(s) + 1 - i]]

\* the bits in the order the loop produced them
ToBinaryUnreversed(value) == BitStream(value, 0)

\* std::string(token.rbegin(), token.rend()) of os.str()
ToBinary(value) == Reverse(BitStream(value, 0))

\* ss << std::hex << c; int value; ss >> value;  a failed extraction leaves in
\* value what it held before, gs[p] for the character at position p
Extract(c, p, gs) == IF c \in HexChars THEN HexValue(c) ELSE gs[p]

\* a placeholder one character short
BlankShort == <<" ", " ", " ">>

\* bin_part += "    "
Blank == <<" ", " ", " ", " ">>

\* positions of hex_part the 7x2 loop converts: cur_pos = 3*token + tlen
ConvertedPositions(hex) ==
    {p \in 0..(Len(hex) - 1) :
        /\ p \div (TokenLen + 1) < NumTokens
        /\ p % (TokenLen + 1) < TokenLen
        /\ ~IsSpace(hex[p + 1])}

\* the converted positions whose extraction fails
FailPositions(hex) == {p \in ConvertedPositions(hex) : hex[p + 1] \notin HexChars}

\* a slot rendered from its leading character alone
GroupFirstOnly(hex, cur_pos, gs) ==
    IF cur_pos % (TokenLen + 1) # 0 THEN <<>>
    ELSE IF cur_pos < Len(hex) /\ ~IsSpace(hex[cur_pos + 1])
    THEN ToBinary(Extract(hex[cur_pos + 1], cur_pos, gs))
    ELSE Blank

\* body of the inner loop at cur_pos (lines 126-140)
Group(hex, cur_pos, gs) ==
    IF cur_pos < Len(hex) /\ ~IsSpace(hex[cur_pos + 1])
    THEN ToBinary(Extract(hex[cur_pos + 1], cur_pos, gs))
    ELSE Blank

\* the inner loop  for(tlen < 2; tlen++, cur_pos++)
RECURSIVE TokenChars(_, _, _, _)
TokenChars(hex, cur_pos, tlen, gs) ==
    IF tlen = TokenLen THEN <<>>
    ELSE Group(hex, cur_pos, gs) \o TokenChars(hex, cur_pos + 1, tlen + 1, gs)

\* the outer loop  for(token < 7)  from token on; cur_pos advances by 3 per token
RECURSIVE Tokens(_, _, _, _)
Tokens(hex, token, cur_pos, gs) ==
    IF token = NumTokens THEN <<>>
    ELSE TokenChars(hex, cur_pos, 0, gs) \o <<" ">>
         \o Tokens(hex, token + 1, cur_pos + TokenLen + 1, gs)

\* bin_part after the loops
BinPart(hex, gs) == Tokens(hex, 0, 0, gs)

----------------------------------------------------------------------------
(* The pieces of an instruction line (lines 114-120, 146) *)

\* end_pos after lines 116-119
EndPos(l, pos1) ==
    LET found == Find(l, TAB, pos1)
    IN  IF found = npos THEN SizeSub(Len(l), 1) ELSE found

\* line.substr(0, pos)
Header(l, pos1) == Substr(l, 0, pos1)

\* line.substr(pos, end_pos-pos+1)
HexPart(l, pos1, end_pos) == Substr(l, pos1, SizeAdd(SizeSub(end_pos, pos1), 1))

\* the rest of the line after end_pos
TrailerAfterTab(l, end_pos) == Substr(l, Min(end_pos + 1, Len(l)), npos)

\* line.substr(end_pos, std::string::npos)
Trailer(l, end_pos) == Substr(l, end_pos, npos)

\* the values line[i] may yield: the character there, or any byte when i is
\* outside the string (the read is then undefined)
Alphabet == {COLON, TAB, " ", "4", "g"}
CharAt(s, i) == IF IndexInBounds(s, i) THEN {s[i + 1]} ELSE Alphabet

----------------------------------------------------------------------------
(* Inputs *)

\* every line of at most MaxLen characters over Alphabet
ShortLines == UNION {[1..n -> Alphabet] : n \in 0..MaxLen}

\* 8:<TAB>4b 8d 05 6f<TAB>mov
LineTwoTabs ==
    <<"8", ":", TAB, "4", "b", " ", "8", "d", " ", "0", "5", " ", "6", "f", TAB, "m", "o", "v">>
\* c:<TAB>b8 10 90 04 08 <TAB>m
LineFiveBytes ==
    <<"c", ":", TAB, "b", "8", " ", "1", "0", " ", "9", "0", " ", "0", "4", " ", "0", "8", " ", TAB, "m">>
\* a:<TAB>00 00 
LineContinuation ==
    <<"a", ":", TAB, "0", "0", " ", "0", "0", " ">>
\* 1:<TAB>01 23 45 67 89 ab cd
LineSevenBytes ==
    <<"1", ":", TAB, "0", "1", " ", "2", "3", " ", "4", "5", " ", "6", "7", " ", "8", "9", " ", "a", "b", " ", "c", "d">>
\* 2:<TAB>ef AB CD EF 01 23 45 67<TAB>x
LineEightBytes ==
    <<"2", ":", TAB, "e", "f", " ", "A", "B", " ", "C", "D", " ", "E", "F", " ", "0", "1", " ", "2", "3", " ", "4", "5", " ", "6", "7", TAB, "x">>
\* 0 <s>:
LineLabel ==
    <<"0", " ", "<", "s", ">", ":">>
\* <TAB>4b
LineTabFirst ==
    <<TAB, "4", "b">>
\* 3:<TAB>9a<TAB>j<TAB>k
LineThreeTabs ==
    <<"3", ":", TAB, "9", "a", TAB, "j", TAB, "k">>

SampleLines == {LineTwoTabs, LineFiveBytes, LineContinuation, LineSevenBytes, LineEightBytes, LineLabel, LineTabFirst, LineThreeTabs}

\* the lines a one-line file is drawn from
Lines == ShortLines \cup SampleLines

\* the lines the files of the whole program are drawn from
FileLines == {<<>>, LineLabel, LineTwoTabs, LineContinuation, LineTabFirst}

Files == UNION {[1..n -> FileLines] : n \in 0..MaxLines}

\* argv[1..argc-1]
ArgLists == UNION {[1..n -> {"-b", "f"}] : n \in 0..MaxArgs}

----------------------------------------------------------------------------
(* main and usage (lines 34-81) *)

argc == Len(argv) + 1

UsageText == "Usage: objdump_to_hexdump [-b] objdump_output_file"

\* a usage() that reports failure whatever the message
UsageExitAlwaysOne(msg) == 1

\* exit(msg != "" ? 1 : 0)
UsageExitCode(msg) == IF msg # <<>> THEN 1 ELSE 0

\* usage(msg): line 67 parses as ((cout << msg) << msg) != "" ? ... : ..., so
\* the message is written twice; then the usage text; then the process exits
usage(msg) ==
    /\ out' = out \o msg \o msg \o <<UsageText>>
    /\ usage_msg' = msg
    /\ exit_code' = UsageExitCode(msg)
    /\ pc' = "exit"
    /\ UNCHANGED <<argv, full_output, filename, exists, input, nread, line, kind,
                   hex_part, bin_part, err, oob>>

\* if(argc < 2) usage();
MainNoArgs ==
    /\ pc = "main"
    /\ argc < 2
    /\ usage(<<>>)

\* else if (argc > 2) usage("Unknown option: " + token);
MainUnknownOption ==
    /\ pc = "main"
    /\ argc >= 2
    /\ argv[1] # "-b"
    /\ argc > 2
    /\ usage(<<"Unknown option: ", argv[1]>>)

\* else usage("Missing objdump_output_file.");  reached with i = 2 = argc
MainMissingFile ==
    /\ pc = "main"
    /\ argc >= 2
    /\ LET i == IF argv[1] = "-b" THEN 2 ELSE 1
       IN  /\ ~(argv[1] # "-b" /\ argc > 2)
           /\ ~(i < argc)
    /\ usage(<<"Missing objdump_output_file.">>)

\* return process_objdump_file(filename, full_output);
MainProcess ==
    /\ pc = "main"
    /\ argc >= 2
    /\ LET i == IF argv[1] = "-b" THEN 2 ELSE 1
       IN  /\ ~(argv[1] # "-b" /\ argc > 2)
           /\ i < argc
           /\ filename' = argv[i]
    /\ full_output' = (argv[1] # "-b")
    /\ pc' = "open"
    /\ UNCHANGED <<argv, exists, input, nread, line, kind, hex_part, bin_part,
                   out, err, exit_code, usage_msg, oob>>

----------------------------------------------------------------------------
(* process_objdump_file (lines 92-153) *)

\* an open failure that is reported but returns 0
OpenFailReturnsZero ==
    /\ pc = "open"
    /\ ~exists
    /\ err' = err \o <<"Failed to open ", filename, " for input.\n">>
    /\ exit_code' = 0
    /\ pc' = "exit"
    /\ UNCHANGED <<argv, full_output, filename, exists, input, nread, line, kind,
                   hex_part, bin_part, out, usage_msg, oob>>

\* if(!fin.is_open()) { cerr << ...; ret_code = 1; }  ... return ret_code;
OpenFail ==
    /\ pc = "open"
    /\ ~exists
    /\ err' = err \o <<"Failed to open ", filename, " for input.\n">>
    /\ exit_code' = 1
    /\ pc' = "exit"
    /\ UNCHANGED <<argv, full_output, filename, exists, input, nread, line, kind,
                   hex_part, bin_part, out, usage_msg, oob>>

\* the else branch: the stream is open, the loop starts
OpenOk ==
    /\ pc = "open"
    /\ exists
    /\ pc' = "loop"
    /\ UNCHANGED <<argv, full_output, filename, exists, input, nread, line, kind,
                   hex_part, bin_part, out, err, exit_code, usage_msg, oob>>

\* getline succeeded and  pos == npos || line[pos-1] != ':'  (lines 108-111)
PlainLine ==
    /\ pc = "loop"
    /\ nread < Len(input)
    /\ LET l   == input[nread + 1]
           pos == Find(l, TAB, 0)
       IN  /\ \/ pos = npos
              \/ /\ pos # npos
                 /\ \E c \in CharAt(l, SizeSub(pos, 1)) : c # COLON
           /\ line' = l
           /\ out' = out \o (IF full_output THEN l \o <<NL>> ELSE <<>>)
           /\ oob' = (oob \/ (pos # npos /\ ~IndexInBounds(l, SizeSub(pos, 1))))
    /\ nread' = nread + 1
    /\ kind' = "plain"
    /\ hex_part' = <<>>
    /\ bin_part' = <<>>
    /\ UNCHANGED <<pc, argv, full_output, filename, exists, input, err, exit_code,
                   usage_msg>>

\* getline succeeded and the else branch is taken (lines 112-148)
InstructionLine ==
    /\ pc = "loop"
    /\ nread < Len(input)
    /\ LET l       == input[nread + 1]
           pos     == Find(l, TAB, 0)
           pos1    == SizeAdd(pos, 1)
           end_pos == EndPos(l, pos1)
           hex     == HexPart(l, pos1, end_pos)
       IN  /\ pos # npos
           /\ \E c \in CharAt(l, SizeSub(pos, 1)) : c = COLON
           /\ \E gs \in [FailPositions(hex) -> Garbage] :
                /\ bin_part' = BinPart(hex, gs)
                /\ out' = out \o (IF full_output THEN Header(l, pos1) ELSE <<>>)
                              \o BinPart(hex, gs)
                              \o (IF full_output THEN Trailer(l, end_pos) ELSE <<>>)
                              \o <<NL>>
           /\ line' = l
           /\ hex_part' = hex
           /\ oob' = (\/ oob
                      \/ ~IndexInBounds(l, SizeSub(pos, 1))
                      \/ ~StartInBounds(l, pos1)
                      \/ (full_output /\ ~StartInBounds(l, end_pos)))
    /\ nread' = nread + 1
    /\ kind' = "instruction"
    /\ UNCHANGED <<pc, argv, full_output, filename, exists, input, err, exit_code,
                   usage_msg>>

\* getline fails at end of file: fin.close(); return ret_code;  with ret_code 0
EndOfFile ==
    /\ pc = "loop"
    /\ nread = Len(input)
    /\ exit_code' = 0
    /\ pc' = "exit"
    /\ UNCHANGED <<argv, full_output, filename, exists, input, nread, line, kind,
                   hex_part, bin_part, out, err, usage_msg, oob>>

----------------------------------------------------------------------------
(* Specifications *)

\* the whole program: any argument list, a file that opens or not
Init ==
    /\ pc = "main"
    /\ argv \in ArgLists
    /\ exists \in BOOLEAN
    /\ input \in (IF exists THEN Files ELSE {<<>>})
    /\ full_output = TRUE
    /\ filename = ""
    /\ nread = 0
    /\ line = <<>>
    /\ kind = "none"
    /\ hex_part = <<>>
    /\ bin_part = <<>>
    /\ out = <<>>
    /\ err = <<>>
    /\ exit_code = -1
    /\ usage_msg = <<>>
    /\ oob = FALSE

Next ==
    \/ MainNoArgs
    \/ MainUnknownOption
    \/ MainMissingFile
    \/ MainProcess
    \/ OpenFail
    \/ OpenOk
    \/ PlainLine
    \/ InstructionLine
    \/ EndOfFile

Spec == Init /\ [][Next]_vars

\* process_objdump_file on an opened one-line file, the line drawn from Lines
InitLine ==
    /\ pc = "loop"
    /\ argv \in {<<"f">>, <<"-b", "f">>}
    /\ full_output = (argv[1] # "-b")
    /\ filename = "f"
    /\ exists = TRUE
    /\ input \in {<<l>> : l \in Lines}
    /\ nread = 0
    /\ line = <<>>
    /\ kind = "none"
    /\ hex_part = <<>>
    /\ bin_part = <<>>
    /\ out = <<>>
    /\ err = <<>>
    /\ exit_code = -1
    /\ usage_msg = <<>>
    /\ oob = FALSE

NextLine ==
    \/ PlainLine
    \/ InstructionLine
    \/ EndOfFile

SpecLine == InitLine /\ [][NextLine]_vars

----------------------------------------------------------------------------
(* Vocabulary of the properties, stated on the text of a line *)

\* 1-based index of the first tab of l at or after index from, 0 if none
TabFrom(l, from) ==
    IF \E i \in from..Len(l) : l[i] = TAB
    THEN CHOOSE i \in from..Len(l) : l[i] = TAB /\ \A j \in from..(i - 1) : l[j] # TAB
    ELSE 0

FirstTab(l) == TabFrom(l, 1)
SecondTab(l) == IF FirstTab(l) = 0 THEN 0 ELSE TabFrom(l, FirstTab(l) + 1)

\* a tab whose immediately preceding character is a colon
IsInstructionLine(l) ==
    /\ FirstTab(l) > 1
    /\ l[FirstTab(l) - 1] = COLON

IsPlainLine(l) == ~IsInstructionLine(l)

\* the line up through and including the first tab
HeaderOf(l) == SubSeq(l, 1, FirstTab(l))

\* the text after the first tab up to and including the second tab, or to the
\* end of the line when there is none
ByteFieldOf(l) ==
    SubSeq(l, FirstTab(l) + 1, IF SecondTab(l) = 0 THEN Len(l) ELSE SecondTab(l))

\* the line from the second tab to its end; empty without a second tab
TrailerOf(l) == IF SecondTab(l) = 0 THEN <<>> ELSE SubSeq(l, SecondTab(l), Len(l))

Count(s, c) == Cardinality({i \in DOMAIN s : s[i] = c})

BitOf(c) == IF c = "1" THEN 1 ELSE 0

\* the value of a hexadecimal digit, from its place among the digits
LowerDigits == <<"0","1","2","3","4","5","6","7","8","9","a","b","c","d","e","f">>
UpperDigits == <<"0","1","2","3","4","5","6","7","8","9","A","B","C","D","E","F">>
DigitValue(c) ==
    (CHOOSE i \in 1..16 : LowerDigits[i] = c \/ UpperDigits[i] = c) - 1

\* every character the loop converts is a hexadecimal digit
HexClean(hex) == FailPositions(hex) = {}

\* the group of bin_part produced for position p of a hex-clean byte field
GroupAt(bin, p) == SubSeq(bin, 9 * (p \div 3) + 4 * (p % 3) + 1, 9 * (p \div 3) + 4 * (p % 3) + 4)

\* one line has just been processed
Processed == nread >= 1 /\ kind # "none"

----------------------------------------------------------------------------
(* C1 *)

\* C1: a plain line (no tab, or first tab not immediately preceded by ':') is
\* written unchanged plus one newline in full-output mode, and nothing is
\* written for it in binary-only mode.
C1_PlainLinePassthrough ==
    (nread = 1 /\ IsPlainLine(input[1]))
        => out = (IF full_output THEN input[1] \o <<NL>> ELSE <<>>)

----------------------------------------------------------------------------
(* C2 *)

\* C2 as stated: the rendering of every instruction line is exactly 35
\* characters, 7 groups of 4 binary-or-space characters each followed by a space.
C2_RenderingIs35 ==
    (Processed /\ IsInstructionLine(line))
        => /\ Len(bin_part) = 35
           /\ \A k \in 0..6 : bin_part[5 * k + 5] = " "

\* C2 amended: the rendering of every instruction line is 7 slots of two groups
\* (one per character of the slot) and one separator space; it is never shorter
\* than 63 characters, and when every converted character is a hexadecimal
\* digit it is exactly 63: 7 groups of 8 binary-or-space characters, each
\* followed by one separator space, whatever the length of the byte field.
C2_RenderingIs63 ==
    (Processed /\ IsInstructionLine(line))
        => /\ Len(bin_part) >= 63
           /\ HexClean(hex_part)
                => /\ Len(bin_part) = 63
                   /\ \A k \in 0..6 :
                        /\ bin_part[9 * k + 9] = " "
                        /\ \A j \in 1..8 : bin_part[9 * k + j] \in {"0", "1", " "}

C2_Witness ==
    /\ Processed
    /\ kind = "instruction"
    /\ line = LineEightBytes
    /\ Len(bin_part) = 63
    /\ Len(hex_part) > 21

----------------------------------------------------------------------------
(* C3 *)

RECURSIVE LeadingOnly(_, _, _)
LeadingOnly(hex, k, gs) ==
    IF k = 7 THEN <<>>
    ELSE GroupFirstOnly(hex, 3 * k, gs) \o <<" ">> \o LeadingOnly(hex, k + 1, gs)

\* C3 as stated: only the first character of each of the 7 slots is tested and
\* converted (one 4-character group, or 4 spaces when absent or whitespace);
\* the second character contributes no output.
C3_LeadingCharacterOnly ==
    (Processed /\ IsInstructionLine(line))
        => \E gs \in [FailPositions(hex_part) -> Garbage] :
              bin_part = LeadingOnly(hex_part, 0, gs)

\* C3 amended: both characters of each of the 7 slots are tested and
\* converted: each one that is a hexadecimal digit yields its own 4-character
\* binary group, each one that is absent or whitespace yields 4 spaces, and
\* only the separator character after the slot contributes no output.
\* "4b 8d 05 6f" renders as 01001011 10001101 00000101 01101111 and three
\* blank groups of 8 spaces.
C3_BothCharactersConverted ==
    (Processed /\ IsInstructionLine(line) /\ HexClean(hex_part))
        => /\ Len(bin_part) = 7 * (4 + 4 + 1)
           /\ \A k \in 0..6 : \A j \in 0..1 :
                LET p == 3 * k + j
                IN  IF p < Len(hex_part) /\ ~IsSpace(hex_part[p + 1])
                    THEN /\ GroupAt(bin_part, p) \in [1..4 -> {"0", "1"}]
                         /\ 8 * BitOf(GroupAt(bin_part, p)[1]) + 4 * BitOf(GroupAt(bin_part, p)[2])
                              + 2 * BitOf(GroupAt(bin_part, p)[3]) + BitOf(GroupAt(bin_part, p)[4])
                            = DigitValue(hex_part[p + 1])
                    ELSE GroupAt(bin_part, p) = <<" ", " ", " ", " ">>
           /\ line = LineTwoTabs
                => bin_part =
                     <<"0","1","0","0","1","0","1","1"," ", "1","0","0","0","1","1","0","1"," ",
                       "0","0","0","0","0","1","0","1"," ", "0","1","1","0","1","1","1","1"," ",
                       " "," "," "," "," "," "," "," "," ", " "," "," "," "," "," "," "," "," ",
                       " "," "," "," "," "," "," "," "," ">>

C3_Witness ==
    /\ Processed
    /\ kind = "instruction"
    /\ line = LineTwoTabs
    /\ SubSeq(bin_part, 1, 9) = <<"0","1","0","0","1","0","1","1"," ">>
    /\ SubSeq(bin_part, 37, 45) = <<" "," "," "," "," "," "," "," "," ">>

----------------------------------------------------------------------------
(* C4 *)

\* C4: for an instruction line with a second tab, full-output mode writes the
\* header (through the first tab), the rendering of the byte field (after the
\* first tab through the second tab), the trailer (from the second tab to the
\* end) and one newline; header and trailer are copied unchanged and the
\* second tab is written exactly once (the rendering holds no tab).
C4_HeaderRenderingTrailer ==
    (nread = 1 /\ full_output /\ IsInstructionLine(input[1]) /\ SecondTab(input[1]) # 0)
        => /\ kind = "instruction"
           /\ hex_part = ByteFieldOf(input[1])
           /\ \E gs \in [FailPositions(hex_part) -> Garbage] : bin_part = BinPart(hex_part, gs)
           /\ out = HeaderOf(input[1]) \o bin_part \o TrailerOf(input[1]) \o <<NL>>
           /\ Count(bin_part, TAB) = 0
           /\ Count(out, TAB) = Count(input[1], TAB)
           /\ Count(out, NL) = 1

C4_Witness ==
    /\ nread = 1
    /\ full_output
    /\ line = LineThreeTabs
    /\ kind = "instruction"
    /\ SubSeq(out, 1, 3) = <<"3", ":", TAB>>
    /\ SubSeq(out, Len(out) - 4, Len(out)) = <<TAB, "j", TAB, "k", NL>>
    /\ Len(out) = 3 + 63 + 4 + 1

----------------------------------------------------------------------------
(* C5 *)

\* C5: for an instruction line with no second tab the trailer is empty:
\* full-output mode writes the header, the rendering and the newline, with no
\* character of the line between the rendering and the newline.
C5_ContinuationTrailerEmpty ==
    (nread = 1 /\ full_output /\ IsInstructionLine(input[1]) /\ SecondTab(input[1]) = 0)
        => out = HeaderOf(input[1]) \o bin_part \o <<NL>>

----------------------------------------------------------------------------
(* C6 *)

RECURSIVE InstructionLinesIn(_)
InstructionLinesIn(ls) ==
    IF ls = <<>> THEN <<>>
    ELSE (IF IsInstructionLine(Head(ls)) THEN <<Head(ls)>> ELSE <<>>)
         \o InstructionLinesIn(Tail(ls))

RECURSIVE Renderings(_)
Renderings(ls) ==
    IF ls = <<>> THEN <<>>
    ELSE BinPart(ByteFieldOf(Head(ls)), <<>>) \o <<NL>> \o Renderings(Tail(ls))

\* C6: after any sequence of lines, standard output holds one
\* newline-terminated line per input line in full-output mode, and in
\* binary-only mode exactly the renderings of the instruction lines, one
\* newline-terminated line each and nothing for plain lines.
C6_OneOutputLinePerLine ==
    pc = "loop"
        => IF full_output
           THEN Count(out, NL) = nread
           ELSE out = Renderings(InstructionLinesIn(SubSeq(input, 1, nread)))

----------------------------------------------------------------------------
(* C7 *)

UsageShown == \E i \in DOMAIN out : out[i] = UsageText

\* C7: the process ends with usage, before any file is opened, exactly when
\* there are no arguments (empty message, exit code 0), when the first argument
\* is not "-b" and another follows (message, exit code 1), or when "-b" has no
\* filename after it (message, exit code 1); otherwise the first remaining
\* argument names the file processed, in binary-only mode iff the first
\* argument is "-b".
C7_ArgumentHandling ==
    pc # "main"
        => IF Len(argv) = 0
           THEN /\ pc = "exit" /\ UsageShown /\ usage_msg = <<>> /\ exit_code = 0
                /\ nread = 0 /\ err = <<>>
           ELSE IF (argv[1] # "-b" /\ Len(argv) >= 2) \/ argv = <<"-b">>
           THEN /\ pc = "exit" /\ UsageShown /\ usage_msg # <<>> /\ exit_code = 1
                /\ nread = 0 /\ err = <<>>
           ELSE /\ ~UsageShown
                /\ filename = (IF argv[1] = "-b" THEN argv[2] ELSE argv[1])
                /\ full_output = (argv[1] # "-b")

C7_Witness ==
    /\ pc = "exit"
    /\ argv = <<>>
    /\ exit_code = 0
    /\ UsageShown

----------------------------------------------------------------------------
(* C8 *)

\* C8: when the file cannot be opened the program writes an error naming the
\* file to the error stream, nothing to standard output, and exits 1; when it
\* opens, every line is processed to end-of-file and the exit code is 0.
C8_OpenFailureAndSuccess ==
    (pc = "exit" /\ ~UsageShown)
        => IF ~exists
           THEN /\ exit_code = 1
                /\ out = <<>>
                /\ Len(err) = 3 /\ err[2] = filename
                /\ nread = 0
           ELSE /\ exit_code = 0
                /\ nread = Len(input)
                /\ err = <<>>

C8_Witness ==
    /\ pc = "exit"
    /\ ~exists
    /\ exit_code = 1
    /\ err = <<"Failed to open ", "f", " for input.\n">>
    /\ out = <<>>

----------------------------------------------------------------------------
(* C9 *)

\* C9: every converted hexadecimal digit (0-9, a-f, A-F) yields exactly 4
\* characters from {'0','1'}, the most-significant-bit-first binary
\* representation of its value 0..15; 'a' gives 1010 and '4' gives 0100.
C9_MsbFirstNibble ==
    (Processed /\ IsInstructionLine(line) /\ HexClean(hex_part))
        => \A p \in ConvertedPositions(hex_part) :
              LET g == GroupAt(bin_part, p)
                  c == hex_part[p + 1]
              IN  /\ Len(g) = 4
                  /\ \A i \in 1..4 : g[i] \in {"0", "1"}
                  /\ DigitValue(c) = 8 * BitOf(g[1]) + 4 * BitOf(g[2]) + 2 * BitOf(g[3]) + BitOf(g[4])
                  /\ c = "a" => g = <<"1", "0", "1", "0">>
                  /\ c = "4" => g = <<"0", "1", "0", "0">>

C9_Witness ==
    /\ Processed
    /\ kind = "instruction"
    /\ line = LineSevenBytes
    /\ hex_part[16] = "a"
    /\ GroupAt(bin_part, 15) = <<"1", "0", "1", "0">>

----------------------------------------------------------------------------
(* C10 *)

\* C10: every character index and substring start used while processing a line
\* lies within the string it indexes; a line whose first tab is its first
\* character is read in bounds and handled as a plain line.
C10_IndicesInBounds ==
    /\ oob = FALSE
    /\ (Processed /\ Len(line) > 0 /\ line[1] = TAB) => kind = "plain"

====
